---- MODULE Spec2Model ----
(***************************************************************************)
(* A model of srs::shared_resources / srs::shared_references               *)
(* (include/shared_resources/shared_resources.hpp).                        *)
(*                                                                         *)
(* A kind (a C++ type used as a tag) is a string.  A type_list is a        *)
(* sequence of kinds.  A storage<type_list<K1..Kn>> is the sequence of its *)
(* cells <<[k |-> K1, v |-> v1], ..., [k |-> Kn, v |-> vn]>>: data_ is the *)
(* head cell and rest_ the tail.  An argument pack is a sequence of such   *)
(* cells too: the static type of each argument and its value.  All values  *)
(* are integers: an int or char value, a heap address (a pointer), or the  *)
(* id of a caller's variable (a std::reference_wrapper).                   *)
(*                                                                         *)
(* What the compiler rejects (an unsatisfied requires-clause, or a         *)
(* constructor / member that does not exist once a body is instantiated)   *)
(* is modelled by the ...OK predicates next to each operation.             *)
(***************************************************************************)
EXTENDS Integers, Sequences, FiniteSets, TLC

VARIABLES x, heap, res, refs, last

vars == <<x, heap, res, refs, last>>

-----------------------------------------------------------------------------
(* Kinds, values and the caller's variables *)

Kinds == {"Int", "Char", "IntP"}

RefKinds == {"RInt", "RChar", "RIntP"}

PtrKinds == {"IntP"}

\* std::reference_wrapper<K>
WrapKind(K) ==
    CASE K = "Int" -> "RInt"
      [] K = "Char" -> "RChar"
      [] K = "IntP" -> "RIntP"
      [] OTHER -> K

Val == {0, 1}

Addr == {10, 11}

\* what reading a cell that does not exist would give; no accepted program
\* ever reads it
NoValue == 0 - 1

\* the caller's variables: a1, a2 (int), b (char), c (int * )
VarIds == 1 .. 4

KindOfVar == <<"Int", "Int", "Char", "IntP">>

ValuesOfKind(K) == IF K \in PtrKinds THEN Addr ELSE Val

SeqsUpTo(S, n) == UNION {[1 .. m -> S] : m \in 0 .. n}

ListOf(s) == [i \in 1 .. Len(s) |-> s[i].k]

KindSet(l) == {l[i] : i \in 1 .. Len(l)}

-----------------------------------------------------------------------------
(* Compile-time set algebra *)

\* (a variant that compares neighbours only)
has_no_duplicates_adjacent(s) == \A i \in 1 .. Len(s) - 1 : s[i] # s[i + 1]

RECURSIVE has_no_duplicates(_)
has_no_duplicates(s) ==
    IF Len(s) <= 1 THEN TRUE
    ELSE /\ s[1] # s[2]
         /\ has_no_duplicates(<<s[1]>> \o Tail(Tail(s)))
         /\ has_no_duplicates(Tail(s))

\* type_list<Types...> is well-formed
type_list_concept(s) == has_no_duplicates(s)

RECURSIVE remove_one(_, _)
remove_one(List, Exclude) ==
    IF List = <<>> THEN <<>>
    ELSE IF Head(List) = Exclude
         THEN remove_one(Tail(List), Exclude)
         ELSE <<Head(List)>> \o remove_one(Tail(List), Exclude)

\* (a variant that drops the rest of the Exclude pack)
remove_types_first_only(List, Excl) ==
    IF Excl = <<>> THEN List ELSE remove_one(List, Head(Excl))

RECURSIVE remove_types(_, _)
remove_types(List, Excl) ==
    IF Excl = <<>> THEN List
    ELSE remove_types(remove_one(List, Head(Excl)), Tail(Excl))

\* (a variant whose recursion ends one element early, on a match)
RECURSIVE contains_last_unchecked(_, _)
contains_last_unchecked(T, U) ==
    IF U = <<>> THEN FALSE
    ELSE IF Len(U) = 1 THEN TRUE
    ELSE T = Head(U) \/ contains_last_unchecked(T, Tail(U))

RECURSIVE contains(_, _)
contains(T, U) ==
    IF U = <<>> THEN FALSE
    ELSE T = Head(U) \/ contains(T, Tail(U))

RECURSIVE contains_all(_, _)
contains_all(T, U) ==
    IF T = <<>> THEN TRUE
    ELSE contains(Head(T), U) /\ contains_all(Tail(T), U)

\* the concepts also need both operands to be type_lists
contains_concept(T, U) == type_list_concept(U) /\ contains(T, U)

contains_all_concept(T, U) ==
    type_list_concept(T) /\ type_list_concept(U) /\ contains_all(T, U)

\* int and char convert to each other implicitly; pointers and
\* reference_wrappers do not
Arithmetic == {"Int", "Char"}

\* internals::get<Target>(args...): the first argument of type Target.  With
\* one argument left the unconstrained base overload get(Target head) takes
\* it, converting it to Target.
\* (a variant that takes the last argument whatever its type)
internals_get_last(Target, args) ==
    IF args = <<>> THEN NoValue ELSE args[Len(args)].v

RECURSIVE internals_get(_, _)
internals_get(Target, args) ==
    IF args = <<>> THEN NoValue
    ELSE IF Head(args).k = Target THEN Head(args).v
    ELSE IF Len(args) = 1
         THEN IF {Target, Head(args).k} \subseteq Arithmetic
              THEN Head(args).v ELSE NoValue
    ELSE internals_get(Target, Tail(args))

-----------------------------------------------------------------------------
(* internals::storage<List> *)

\* storage<List>::get<U>() is well-formed: storage<type_list<>> has no get,
\* storage<type_list<T>>::get requires same_as<T, U>, and the general cell
\* forwards to rest_ when U is not its Head
\* (a variant whose last cell answers for every kind)
storage_get_ok_unconstrained(s, U) == s # <<>>

RECURSIVE storage_get_ok(_, _)
storage_get_ok(s, U) ==
    IF s = <<>> THEN FALSE
    ELSE IF Len(s) = 1 THEN s[1].k = U
    ELSE IF Head(s).k = U THEN TRUE
    ELSE storage_get_ok(Tail(s), U)

\* the cell get<U>() returns a reference to: its index in the chain (0: none)
\* (a variant that never forwards to rest_)
storage_cell_head(s, U) == IF s = <<>> THEN 0 ELSE 1

RECURSIVE storage_cell(_, _)
storage_cell(s, U) ==
    IF s = <<>> THEN 0
    ELSE IF Head(s).k = U THEN 1
    ELSE IF Len(s) = 1 THEN 0
    ELSE LET r == storage_cell(Tail(s), U) IN IF r = 0 THEN 0 ELSE r + 1

\* reading through get<U>()
storage_get(s, U) ==
    LET i == storage_cell(s, U) IN IF i = 0 THEN NoValue ELSE s[i].v

\* assigning through the reference get<U>() returns
\* (a variant whose cells of one storage share one object)
storage_set_shared(s, U, v) ==
    IF storage_cell(s, U) = 0 THEN s ELSE [i \in 1 .. Len(s) |-> [k |-> s[i].k, v |-> v]]

storage_set(s, U, v) ==
    LET i == storage_cell(s, U) IN
    IF i = 0 THEN s ELSE [s EXCEPT ![i] = [k |-> s[i].k, v |-> v]]

\* storage<List>::storage(Args const &...args) is viable and its member
\* initialisers are well-formed
RECURSIVE storage_args_ok(_, _)
storage_args_ok(List, args) ==
    IF List = <<>> THEN FALSE
    ELSE IF Len(List) = 1 THEN contains_concept(List[1], ListOf(args))
    ELSE /\ contains_all_concept(List, ListOf(args))
         /\ storage_args_ok(Tail(List), args)

\* data_(internals::get<Head>(args...)), rest_(args...)
\* (a variant that keeps one cell for each argument)
storage_args_per_argument(List, args) == args

RECURSIVE storage_args(_, _)
storage_args(List, args) ==
    IF List = <<>> THEN <<>>
    ELSE <<[k |-> Head(List), v |-> internals_get(Head(List), args)]>>
         \o storage_args(Tail(List), args)

\* (a variant that asks b first)
get_head_b_first(K, a, b) ==
    IF contains(K, ListOf(b)) THEN storage_get(b, K) ELSE storage_get(a, K)

\* get_head(a, b): a's value when ListA contains Head, else b's
get_head(K, a, b) ==
    IF contains(K, ListOf(a)) THEN storage_get(a, K) ELSE storage_get(b, K)

get_head_ok(K, a, b) ==
    IF contains(K, ListOf(a)) THEN storage_get_ok(a, K) ELSE storage_get_ok(b, K)

\* (a variant whose requires-clause is not checked again for rest_)
storage_merge_ok_head_only(List, a, b) ==
    IF List = <<>> THEN FALSE
    ELSE contains_concept(Head(List), ListOf(a)) \/ contains_concept(Head(List), ListOf(b))

\* storage<List>::storage(storage<ListA> const &a, storage<ListB> const &b)
\* is viable and well-formed; storage<type_list<>> has no such constructor
RECURSIVE storage_merge_ok(_, _, _)
storage_merge_ok(List, a, b) ==
    IF List = <<>> THEN FALSE
    ELSE /\ contains_concept(Head(List), ListOf(a))
            \/ contains_concept(Head(List), ListOf(b))
         /\ get_head_ok(Head(List), a, b)
         /\ Len(List) > 1 => storage_merge_ok(Tail(List), a, b)

\* data_(get_head(a, b)), rest_(a, b)
RECURSIVE storage_merge(_, _, _)
storage_merge(List, a, b) ==
    IF List = <<>> THEN <<>>
    ELSE <<[k |-> Head(List), v |-> get_head(Head(List), a, b)]>>
         \o storage_merge(Tail(List), a, b)

-----------------------------------------------------------------------------
(* shared_resources<List, Exclude...>: a record [list, data], data_ being a *)
(* storage<list>                                                            *)

\* using list = remove_types<List, Exclude...>::type
resources_list(List, Excl) == remove_types(List, Excl)

\* shared_resources(Args... args): data_(args...)
resources_raw_ok(list, args) ==
    /\ args # <<>>
    /\ contains_all_concept(list, ListOf(args))
    /\ storage_args_ok(list, args)

resources_raw(list, args) == [list |-> list, data |-> storage_args(list, args)]

\* create_storage(other, args...): storage<type_list<Args...>> add(args...);
\* return storage_type(other, add);
create_storage(list, other, args) ==
    storage_merge(list, other, storage_args(ListOf(args), args))

create_storage_ok(list, other, args) ==
    /\ type_list_concept(ListOf(args))
    /\ args # <<>> => storage_args_ok(ListOf(args), args)
    /\ storage_merge_ok(list, other, storage_args(ListOf(args), args))

\* Construction from another shared_resources and args (possibly none).  With
\* no args and the same list the copy constructor or the converting
\* constructor (requires same_as<list, other list>) is the best match; in
\* every other case it is shared_resources(Other const &, Args const &...),
\* which is more specialised than shared_resources(Args...).
resources_from_ok(list, other, args) ==
    IF args = <<>> /\ list = other.list THEN TRUE
    ELSE create_storage_ok(list, other.data, args)

resources_from(list, other, args) ==
    IF args = <<>> /\ list = other.list
    THEN [list |-> list, data |-> other.data]
    ELSE [list |-> list, data |-> create_storage(list, other.data, args)]

\* get<U>()
resources_get_ok(c, U) == storage_get_ok(c.data, U)

resources_get(c, U) == storage_get(c.data, U)

-----------------------------------------------------------------------------
(* shared_references<List, Exclude...>: a record [list, data], data_ being  *)
(* the storage of a shared_resources over the wrapped kinds                 *)

\* wrap_with_reference<List>::type
wrap_with_reference(List) == [i \in 1 .. Len(List) |-> WrapKind(List[i])]

\* the list of data_: shared_resources<wrapped_list, wrapped_exclude...>
references_data_list(List, Excl) ==
    resources_list(wrap_with_reference(List), wrap_with_reference(Excl))

\* the value argument a variable gives, and std::reference_wrapper(arg)
\* (a variant that passes a pointer to a copy of the pointee)
ValueArgs_pointee_copied(vs, xx) ==
    [i \in 1 .. Len(vs) |->
        [k |-> KindOfVar[vs[i]],
         v |-> IF KindOfVar[vs[i]] \in PtrKinds
               THEN CHOOSE a \in Addr : a # xx[vs[i]]
               ELSE xx[vs[i]]]]

ValueArgs(vs, xx) == [i \in 1 .. Len(vs) |-> [k |-> KindOfVar[vs[i]], v |-> xx[vs[i]]]]

reference_wrapper_copy(vs, xx) ==
    [i \in 1 .. Len(vs) |-> [k |-> WrapKind(KindOfVar[vs[i]]), v |-> xx[vs[i]]]]

reference_wrapper(vs, xx) ==
    [i \in 1 .. Len(vs) |-> [k |-> WrapKind(KindOfVar[vs[i]]), v |-> vs[i]]]

VarKinds(vs) == [i \in 1 .. Len(vs) |-> KindOfVar[vs[i]]]

\* a container passed as a constructor argument is an argument of a type of
\* its own, which no kind-set of the model lists
OtherArg == [k |-> "Other", v |-> NoValue]

\* shared_references(Args &...args): data_(std::reference_wrapper(args)...)
references_raw_ok(list, dlist, vs, xx) ==
    /\ contains_all_concept(list, VarKinds(vs))
    /\ vs # <<>> => resources_raw_ok(dlist, reference_wrapper(vs, xx))

references_raw(list, dlist, vs, xx) ==
    [list |-> list, data |-> storage_args(dlist, reference_wrapper(vs, xx))]

\* Construction from another shared_references and variables.  For a source
\* that is a non-const lvalue, shared_references(Args &...) binds it better
\* than shared_references(Other const &, Args &...) and is chosen whenever its
\* requires-clause holds, the source then being one more (surplus) argument.
references_takes_raw(list, vs, srcConst) ==
    /\ ~srcConst
    /\ contains_all_concept(list, <<OtherArg.k>> \o VarKinds(vs))

references_from_ok(list, dlist, other, vs, xx, srcConst) ==
    IF references_takes_raw(list, vs, srcConst)
    THEN resources_raw_ok(dlist, <<OtherArg>> \o reference_wrapper(vs, xx))
    ELSE resources_from_ok(dlist, [list |-> ListOf(other.data), data |-> other.data],
                           reference_wrapper(vs, xx))

references_from(list, dlist, other, vs, xx, srcConst) ==
    IF references_takes_raw(list, vs, srcConst)
    THEN [list |-> list,
          data |-> storage_args(dlist, <<OtherArg>> \o reference_wrapper(vs, xx))]
    ELSE [list |-> list,
          data |-> resources_from(dlist, [list |-> ListOf(other.data), data |-> other.data],
                                  reference_wrapper(vs, xx)).data]

\* get<U>(): data_.get<std::reference_wrapper<U>>().get()
references_get_ok(c, U) == storage_get_ok(c.data, WrapKind(U))

references_alias(c, U) == storage_get(c.data, WrapKind(U))

Deref(m, a) == IF a \in DOMAIN m THEN m[a] ELSE NoValue

references_get(c, U, xx) == Deref(xx, references_alias(c, U))

-----------------------------------------------------------------------------
(* The program state: the caller's variables x, the heap cells its pointer  *)
(* variables point to, the resource containers res and the reference        *)
(* containers refs constructed so far, and the last operation with its      *)
(* inputs.  A rejected operation is a program that does not compile:        *)
(* nothing follows it.                                                      *)

MaxLen == 3

MaxExcl == 1

MaxArgs == 3

MaxRes == 2

MaxRefs == 2

\* type_list<...> instantiations: duplicate-free by its requires-clause
TypeLists(KS) == {s \in SeqsUpTo(KS, MaxLen) : type_list_concept(s)}

ExcludePacks(KS) == SeqsUpTo(KS, MaxExcl)

\* argument packs: each variable passed at most once (a1 and a2 together
\* make a pack with a repeated kind)
ArgPacks(VS) == {vs \in SeqsUpTo(VS, MaxArgs) :
                    \A i, j \in 1 .. Len(vs) : i # j => vs[i] # vs[j]}

TypedX == {f \in [VarIds -> Val \cup Addr] :
              \A i \in VarIds : f[i] \in ValuesOfKind(KindOfVar[i])}

Op(op, ok, tgt, args, src, k, v) ==
    [op |-> op, ok |-> ok, tgt |-> tgt, args |-> args, src |-> src, k |-> k, v |-> v]

NoOp == Op("none", TRUE, <<>>, <<>>, 0, "", 0)

\* every storage<list> there is: what a default-initialised one may hold
StoragesOf(list) ==
    {d \in [1 .. Len(list) -> [k : KindSet(list), v : Val \cup Addr]] :
        \A i \in 1 .. Len(list) : d[i].k = list[i] /\ d[i].v \in ValuesOfKind(list[i])}

\* shared_resources<List, Excl...> r;  the cells are left uninitialised: data
\* is any storage<list>
DefaultConstruct(List, Excl, data) ==
    LET list == resources_list(List, Excl)
    IN /\ last.ok /\ Len(res) < MaxRes
       /\ data \in StoragesOf(list)
       /\ res' = Append(res, [list |-> list, data |-> data])
       /\ last' = Op("default", TRUE, list, <<>>, 0, "", 0)
       /\ UNCHANGED <<x, heap, refs>>

\* shared_resources<List, Excl...> r(vs...)
ConstructRaw(List, Excl, vs) ==
    LET list == resources_list(List, Excl)
        args == ValueArgs(vs, x)
        ok == resources_raw_ok(list, args)
    IN /\ last.ok /\ Len(res) < MaxRes
       /\ res' = IF ok THEN Append(res, resources_raw(list, args)) ELSE res
       /\ last' = Op("raw", ok, list, vs, 0, "", 0)
       /\ UNCHANGED <<x, heap, refs>>

\* shared_resources<List, Excl...> r(res[i], vs...)
ConstructFrom(i, List, Excl, vs) ==
    LET list == resources_list(List, Excl)
        args == ValueArgs(vs, x)
        ok == resources_from_ok(list, res[i], args)
    IN /\ last.ok /\ Len(res) < MaxRes /\ i \in 1 .. Len(res)
       /\ res' = IF ok THEN Append(res, resources_from(list, res[i], args)) ELSE res
       /\ last' = Op("from", ok, list, vs, i, "", 0)
       /\ UNCHANGED <<x, heap, refs>>

\* res[i].get<K>(), read
Get(i, K) ==
    LET ok == resources_get_ok(res[i], K)
    IN /\ last.ok /\ i \in 1 .. Len(res)
       /\ last' = Op("get", ok, res[i].list, <<>>, i, K,
                     IF ok THEN resources_get(res[i], K) ELSE NoValue)
       /\ UNCHANGED <<x, heap, res, refs>>

\* res[i].get<K>() = v
WriteSlot(i, K, v) ==
    /\ last.ok /\ i \in 1 .. Len(res)
    /\ resources_get_ok(res[i], K)
    /\ v \in ValuesOfKind(K)
    /\ res' = [res EXCEPT ![i].data = storage_set(res[i].data, K, v)]
    /\ last' = Op("write", TRUE, res[i].list, <<>>, i, K, v)
    /\ UNCHANGED <<x, heap, refs>>

\* *res[i].get<K>() = v, K a pointer kind
WritePointee(i, K, v) ==
    /\ last.ok /\ i \in 1 .. Len(res)
    /\ K \in PtrKinds /\ resources_get_ok(res[i], K)
    /\ v \in Val
    /\ heap' = LET a == resources_get(res[i], K)
               IN IF a \in DOMAIN heap THEN [heap EXCEPT ![a] = v] ELSE heap
    /\ last' = Op("poke", TRUE, res[i].list, <<>>, i, K, v)
    /\ UNCHANGED <<x, res, refs>>

\* the caller assigns to one of its variables
WriteVar(var, v) ==
    /\ last.ok
    /\ v \in ValuesOfKind(KindOfVar[var])
    /\ x' = [x EXCEPT ![var] = v]
    /\ last' = Op("var", TRUE, <<>>, <<var>>, 0, "", v)
    /\ UNCHANGED <<heap, res, refs>>

\* shared_references<List, Excl...> r(vs...)
ConstructRefRaw(List, Excl, vs) ==
    LET list == resources_list(List, Excl)
        dlist == references_data_list(List, Excl)
        ok == references_raw_ok(list, dlist, vs, x)
    IN /\ last.ok /\ Len(refs) < MaxRefs
       /\ refs' = IF ok THEN Append(refs, references_raw(list, dlist, vs, x)) ELSE refs
       /\ last' = Op("refraw", ok, list, vs, 0, "", 0)
       /\ UNCHANGED <<x, heap, res>>

\* shared_references<List, Excl...> r(refs[i], vs...); srcConst: refs[i] is
\* named through a const lvalue
ConstructRefFrom(i, List, Excl, vs, srcConst) ==
    LET list == resources_list(List, Excl)
        dlist == references_data_list(List, Excl)
        ok == references_from_ok(list, dlist, refs[i], vs, x, srcConst)
    IN /\ last.ok /\ Len(refs) < MaxRefs /\ i \in 1 .. Len(refs)
       /\ refs' = IF ok
                  THEN Append(refs, references_from(list, dlist, refs[i], vs, x, srcConst))
                  ELSE refs
       /\ last' = Op("reffrom", ok, list, vs, i, "", IF srcConst THEN 1 ELSE 0)
       /\ UNCHANGED <<x, heap, res>>

\* refs[i].get<K>(), read
RefGet(i, K) ==
    LET ok == references_get_ok(refs[i], K)
    IN /\ last.ok /\ i \in 1 .. Len(refs)
       /\ last' = Op("refget", ok, refs[i].list, <<>>, i, K,
                     IF ok THEN references_get(refs[i], K, x) ELSE NoValue)
       /\ UNCHANGED <<x, heap, res, refs>>

\* refs[i].get<K>() = v
RefWrite(i, K, v) ==
    /\ last.ok /\ i \in 1 .. Len(refs)
    /\ references_get_ok(refs[i], K)
    /\ v \in ValuesOfKind(K)
    /\ x' = LET a == references_alias(refs[i], K)
            IN IF a \in DOMAIN x THEN [x EXCEPT ![a] = v] ELSE x
    /\ last' = Op("refwrite", TRUE, refs[i].list, <<>>, i, K, v)
    /\ UNCHANGED <<heap, res, refs>>

-----------------------------------------------------------------------------
(* SpecBuild: one construction from variables, then one construction from   *)
(* the container so built, over all kind-sets, exclusions and argument      *)
(* packs.                                                                   *)

\* a1 and a2 hold different values, so that which of two values of one kind
\* was taken shows; b takes both
BuildX == {f \in TypedX : f[1] = 0 /\ f[2] = 1 /\ f[4] = 10}

InitBuild ==
    /\ x \in BuildX
    /\ heap = [a \in Addr |-> 0]
    /\ res = <<>>
    /\ refs = <<>>
    /\ last = NoOp

\* the source was built from exactly the arguments it needs, in the order of
\* the caller's variables: every source container there is, once
SourceBuilt ==
    /\ last.op = "raw" /\ last.ok
    /\ Len(last.args) = Len(last.tgt)
    /\ \A i, j \in 1 .. Len(last.args) : i < j => last.args[i] < last.args[j]

NextBuild ==
    \/ /\ last.op = "none"
       /\ \E List \in TypeLists(Kinds), Excl \in ExcludePacks(Kinds), vs \in ArgPacks(VarIds) :
             ConstructRaw(List, Excl, vs)
    \/ /\ last.op = "none"
       /\ \E List \in TypeLists(Kinds), Excl \in ExcludePacks(Kinds) :
             resources_list(List, Excl) = <<>> /\ DefaultConstruct(List, Excl, <<>>)
    \/ /\ SourceBuilt \/ last.op = "default"
       /\ \E List \in TypeLists(Kinds), Excl \in ExcludePacks(Kinds), vs \in ArgPacks(VarIds) :
             ConstructFrom(1, List, Excl, vs)

SpecBuild == InitBuild /\ [][NextBuild]_vars

-----------------------------------------------------------------------------
(* Spec: a program over resource containers.  It declares an int a1 and an  *)
(* int *c, constructs containers from them and from each other, assigns     *)
(* through get<K>(), assigns to the pointee of get<int *>(), and assigns to *)
(* its own variables.                                                       *)

ProgKinds == {"Int", "IntP"}

\* a1 and c
ProgVars == {1, 4}

Init ==
    /\ x = <<0, 1, 0, 10>>
    /\ heap = [a \in Addr |-> 0]
    /\ res = <<>>
    /\ refs = <<>>
    /\ last = NoOp

Next ==
    \/ /\ last.ok /\ Len(res) < MaxRes
       /\ \E List \in TypeLists(ProgKinds), Excl \in ExcludePacks(ProgKinds),
             vs \in ArgPacks(ProgVars) :
             ConstructRaw(List, Excl, vs)
    \/ /\ last.ok /\ Len(res) < MaxRes
       /\ \E i \in 1 .. Len(res), List \in TypeLists(ProgKinds),
             Excl \in ExcludePacks(ProgKinds), vs \in ArgPacks(ProgVars) :
             ConstructFrom(i, List, Excl, vs)
    \/ /\ last.ok
       /\ \E i \in 1 .. Len(res), K \in ProgKinds, v \in Val \cup Addr :
             WriteSlot(i, K, v)
    \/ /\ last.ok
       /\ \E i \in 1 .. Len(res), K \in PtrKinds, v \in Val :
             WritePointee(i, K, v)
    \/ /\ last.ok
       /\ \E var \in ProgVars, v \in Val \cup Addr :
             WriteVar(var, v)

Spec == Init /\ [][Next]_vars

-----------------------------------------------------------------------------
(* SpecRef: a program over reference containers.  It declares int a1, a2    *)
(* and char b, constructs reference containers from them and from each      *)
(* other (naming the source through a const or a non-const lvalue), reads   *)
(* and assigns through get<K>(), and assigns to its own variables.          *)

RefProgKinds == {"Int", "Char"}

\* a1, a2 and b
RefVars == {1, 2, 3}

InitRef ==
    /\ x = <<0, 1, 0, 10>>
    /\ heap = [a \in Addr |-> 0]
    /\ res = <<>>
    /\ refs = <<>>
    /\ last = NoOp

NextRef ==
    \/ /\ last.ok /\ Len(refs) < MaxRefs
       /\ \E List \in TypeLists(RefProgKinds), Excl \in ExcludePacks(RefProgKinds),
             vs \in ArgPacks(RefVars) :
             ConstructRefRaw(List, Excl, vs)
    \/ /\ last.ok /\ Len(refs) < MaxRefs
       /\ \E i \in 1 .. Len(refs), List \in TypeLists(RefProgKinds),
             Excl \in ExcludePacks(RefProgKinds), vs \in ArgPacks(RefVars),
             srcConst \in BOOLEAN :
             ConstructRefFrom(i, List, Excl, vs, srcConst)
    \/ /\ last.ok
       /\ \E i \in 1 .. Len(refs), K \in RefProgKinds :
             RefGet(i, K)
    \/ /\ last.ok
       /\ \E i \in 1 .. Len(refs), K \in RefProgKinds, v \in Val :
             RefWrite(i, K, v)
    \/ /\ last.ok
       /\ \E var \in RefVars, v \in Val :
             WriteVar(var, v)

SpecRef == InitRef /\ [][NextRef]_vars

-----------------------------------------------------------------------------
(* SpecGet: a program that constructs one container of either flavour from  *)
(* variables, constructs a second one from it over any kind-set, exclusion  *)
(* and argument pack, and calls get<K>() on either of them for any kind.    *)

InitGet ==
    /\ x = <<0, 1, 0, 10>>
    /\ heap = [a \in Addr |-> 0]
    /\ res = <<>>
    /\ refs = <<>>
    /\ last = NoOp

\* as SourceBuilt, for a reference container
RefSourceBuilt ==
    /\ last.op = "refraw" /\ last.ok
    /\ Len(last.args) = Len(last.tgt)
    /\ \A i, j \in 1 .. Len(last.args) : i < j => last.args[i] < last.args[j]

NextGet ==
    \/ /\ last.op = "none"
       /\ \E List \in TypeLists(Kinds), Excl \in ExcludePacks(Kinds), vs \in ArgPacks(VarIds) :
             ConstructRaw(List, Excl, vs)
    \/ /\ last.op = "none"
       /\ \E List \in TypeLists(Kinds), Excl \in ExcludePacks(Kinds), vs \in ArgPacks(VarIds) :
             ConstructRefRaw(List, Excl, vs)
    \/ /\ SourceBuilt
       /\ \E List \in TypeLists(Kinds), Excl \in ExcludePacks(Kinds), vs \in ArgPacks(VarIds) :
             ConstructFrom(1, List, Excl, vs)
    \/ /\ RefSourceBuilt
       /\ \E List \in TypeLists(Kinds), Excl \in ExcludePacks(Kinds), vs \in ArgPacks(VarIds),
             srcConst \in BOOLEAN :
             ConstructRefFrom(1, List, Excl, vs, srcConst)
    \/ /\ last.ok /\ (SourceBuilt \/ last.op = "from")
       /\ \E i \in 1 .. Len(res), K \in Kinds :
             Get(i, K)
    \/ /\ last.ok /\ (RefSourceBuilt \/ last.op = "reffrom")
       /\ \E i \in 1 .. Len(refs), K \in Kinds :
             RefGet(i, K)

SpecGet == InitGet /\ [][NextGet]_vars

-----------------------------------------------------------------------------
(* SpecTypes: a translation unit that instantiates type_list<Types...> over *)
(* any pack of kinds and remove_types<List, Exclude...> over any type_list  *)
(* and any pack of kinds.                                                   *)

MaxTypes == 4

MaxRemove == 2

\* the kinds and their reference_wrappers: all are types a pack may name
AllKinds == Kinds \cup RefKinds

\* type_list<Types...>: well-formed when no_duplicates<Types...> holds
InstantiateTypeList(Types) ==
    /\ last.op = "none"
    /\ last' = Op("type_list", type_list_concept(Types), Types, <<>>, 0, "", 0)
    /\ UNCHANGED <<x, heap, res, refs>>

\* remove_types<List, Exclude...>::type, List a type_list
InstantiateRemoveTypes(List, Exclude) ==
    /\ last.op = "none"
    /\ type_list_concept(List)
    /\ last' = [op |-> "remove_types", ok |-> TRUE, tgt |-> List, args |-> Exclude,
                src |-> 0, k |-> "", v |-> 0, type |-> remove_types(List, Exclude)]
    /\ UNCHANGED <<x, heap, res, refs>>

InitTypes ==
    /\ x = <<0, 1, 0, 10>>
    /\ heap = [a \in Addr |-> 0]
    /\ res = <<>>
    /\ refs = <<>>
    /\ last = NoOp

NextTypes ==
    \/ \E Types \in SeqsUpTo(AllKinds, MaxTypes) : InstantiateTypeList(Types)
    \/ \E List \in TypeLists(AllKinds), Exclude \in SeqsUpTo(AllKinds, MaxRemove) :
          InstantiateRemoveTypes(List, Exclude)

SpecTypes == InitTypes /\ [][NextTypes]_vars

-----------------------------------------------------------------------------
(* What the claims speak of *)

\* the value container c holds for kind K, read off its cells
SlotValue(c, K) ==
    IF \E i \in 1 .. Len(c.data) : c.data[i].k = K
    THEN (CHOOSE cell \in {c.data[i] : i \in 1 .. Len(c.data)} : cell.k = K).v
    ELSE NoValue

HasSlot(c, K) == \E i \in 1 .. Len(c.data) : c.data[i].k = K

\* the container the last construction made, and the one it was made from
Newest == res[Len(res)]

Source == res[last.src]

\* the kinds and values of the raw arguments of the last construction
ArgKindsOf(vs) == {KindOfVar[vs[i]] : i \in 1 .. Len(vs)}

ArgValues(vs, K) == {x[vs[i]] : i \in {j \in 1 .. Len(vs) : KindOfVar[vs[j]] = K}}

\* the variables of kind K among the arguments vs
ArgVarsOf(vs, K) == {vs[i] : i \in {j \in 1 .. Len(vs) : KindOfVar[vs[j]] = K}}

-----------------------------------------------------------------------------
(* C1 *)

\* C1: when a resource container is constructed from an existing container
\* plus extra values and both supply kind K, get<K>() on the new container
\* equals the extra value.  (create_storage passes the existing container's
\* storage as the first operand of the merge, whose value get_head takes.)
C1_ExtraValueWins ==
    (last.op = "from" /\ last.ok) =>
        \A K \in KindSet(last.tgt) \cap KindSet(Source.list) \cap ArgKindsOf(last.args) :
            ArgValues(last.args, K) = {resources_get(Newest, K)}

-----------------------------------------------------------------------------
(* C2 *)

\* C2: a resource container constructed from raw arguments, in any order and
\* with or without surplus kinds, has get<K>() equal to the argument of kind
\* K, for every kind K of its effective set.
C2_RoundTripByKind ==
    (last.op = "raw" /\ last.ok) =>
        \A K \in KindSet(last.tgt) :
            /\ resources_get_ok(Newest, K)
            /\ ArgValues(last.args, K) = {resources_get(Newest, K)}

\* two or more kinds, a surplus argument, and the arguments not in the order
\* of the kind-set
C2_Witness ==
    /\ last.op = "raw" /\ last.ok
    /\ Len(last.tgt) >= 2
    /\ Len(last.args) > Len(last.tgt)
    /\ \E i \in 1 .. Len(last.tgt) : KindOfVar[last.args[i]] # last.tgt[i]
    /\ \A K \in KindSet(last.tgt) : ArgValues(last.args, K) = {resources_get(Newest, K)}

-----------------------------------------------------------------------------
(* C5 *)

\* C5: a resource container constructed from a single source container (no
\* extra values) has get<K>() equal to the value the source holds for K, for
\* every kind K of the target; surplus source kinds are dropped and the order
\* of either kind-set does not matter.
C5_LosslessConversion ==
    (last.op = "from" /\ last.ok /\ last.args = <<>>) =>
        /\ ListOf(Newest.data) = last.tgt
        /\ \A K \in KindSet(last.tgt) :
              /\ HasSlot(Source, K)
              /\ resources_get_ok(Newest, K)
              /\ resources_get(Newest, K) = SlotValue(Source, K)
              /\ resources_get(Newest, K) = resources_get(Source, K)

\* a source with a surplus kind, converted into a target whose kinds come in
\* another order, the two values kept being different
C5_Witness ==
    /\ last.op = "from" /\ last.ok /\ last.args = <<>>
    /\ Len(last.tgt) = 2 /\ Len(Source.list) = 3
    /\ last.tgt[1] # Source.list[1]
    /\ resources_get(Newest, last.tgt[1]) # resources_get(Newest, last.tgt[2])
    /\ \A K \in KindSet(last.tgt) : resources_get(Newest, K) = SlotValue(Source, K)

-----------------------------------------------------------------------------
(* C6 *)

\* C6 as stated: constructing a container from another single container (no
\* extra values) is accepted if and only if the two effective kind-sets are
\* identical as sets.
C6_AcceptedIffSameSet ==
    (last.op = "from" /\ last.args = <<>>) =>
        (last.ok <=> KindSet(last.tgt) = KindSet(Source.list))

\* C6 (amended): constructing a resource container from another single
\* resource container (no extra values) is accepted if and only if the two
\* effective kind-lists are identical, or the target's effective set is not
\* empty and every kind of it is in the source's effective set; the order of
\* the kinds and the kind-set/exclusion pair each was derived from do not
\* matter.
C6_AcceptedIffSubset ==
    (last.op = "from" /\ last.args = <<>>) =>
        /\ last.ok <=> \/ last.tgt = Source.list
                       \/ /\ last.tgt # <<>>
                          /\ KindSet(last.tgt) \subseteq KindSet(Source.list)
        /\ last.ok <=> Len(res) = 2

\* a narrowing conversion: accepted although the source has a kind the target
\* has not
C6_Witness ==
    /\ last.op = "from" /\ last.args = <<>> /\ last.ok
    /\ Len(res) = 2
    /\ KindSet(Newest.list) # KindSet(Source.list)
    /\ KindSet(Newest.list) \subseteq KindSet(Source.list)

-----------------------------------------------------------------------------
(* C7 *)

\* the kinds the inputs of the last construction supply
SuppliedKinds ==
    ArgKindsOf(last.args) \cup (IF last.op = "from" THEN KindSet(Source.list) ELSE {})

SuppliedValues(K) ==
    ArgValues(last.args, K)
        \cup (IF last.op = "from" /\ HasSlot(Source, K) THEN {SlotValue(Source, K)} ELSE {})

BuiltBefore == IF last.op = "from" THEN 1 ELSE 0

-----------------------------------------------------------------------------
(* C10 *)

\* the two operands of the storage merge the last construction ran: the
\* source's storage, and the storage made of the extra arguments
MergeA == Source.data

MergeB == storage_args(VarKinds(last.args), ValueArgs(last.args, x))

\* C10: for every kind K of the target kind-set the merged storage holds A's
\* value of K when A's kind-set contains K, and B's value of K otherwise,
\* whatever the order of the kinds in A, B and the target.
C10_StorageMergeRule ==
    (last.op = "from" /\ last.ok) =>
        \A K \in KindSet(last.tgt) :
            storage_get(Newest.data, K) =
                IF K \in KindSet(ListOf(MergeA))
                THEN SlotValue([data |-> MergeA], K)
                ELSE SlotValue([data |-> MergeB], K)

\* a merge where one kind is in both operands, with different values, and
\* another kind only in B
C10_Witness ==
    /\ last.op = "from" /\ last.ok
    /\ \E K \in KindSet(last.tgt) \cap KindSet(ListOf(MergeA)) \cap KindSet(ListOf(MergeB)) :
          /\ SlotValue([data |-> MergeA], K) # SlotValue([data |-> MergeB], K)
          /\ storage_get(Newest.data, K) = SlotValue([data |-> MergeA], K)
    /\ \E K \in KindSet(last.tgt) \ KindSet(ListOf(MergeA)) :
          storage_get(Newest.data, K) = SlotValue([data |-> MergeB], K)

-----------------------------------------------------------------------------
(* C4 *)

\* C4: an assignment through get<K>() of a resource container changes that
\* container's slot K to the value assigned and nothing else: the caller's
\* variables and the heap stay as they were, so do every other slot of the
\* container and every slot of every other container, whichever of them the
\* container was constructed from or was the source of.
C4_OwningValueSemantics ==
    [][last'.op = "write" =>
          /\ x' = x /\ heap' = heap
          /\ Len(res') = Len(res)
          /\ SlotValue(res'[last'.src], last'.k) = last'.v
          /\ \A j \in 1 .. Len(res) : \A K \in Kinds :
                (j # last'.src \/ K # last'.k) =>
                    /\ HasSlot(res'[j], K) = HasSlot(res[j], K)
                    /\ SlotValue(res'[j], K) = SlotValue(res[j], K)]_vars

\* a container constructed from another one and then assigned to: the two
\* hold the same kinds, two of them, differ in the slot assigned and in no
\* other, and the variable that seeded the slot differs from it too
C4_Witness ==
    /\ last.op = "write" /\ last.k = "Int" /\ last.src = 2
    /\ Len(res) = 2 /\ KindSet(res[1].list) = ProgKinds /\ KindSet(res[2].list) = ProgKinds
    /\ SlotValue(res[2], "Int") = last.v
    /\ SlotValue(res[1], "Int") # last.v
    /\ SlotValue(res[1], "IntP") = SlotValue(res[2], "IntP")
    /\ x[1] # last.v

-----------------------------------------------------------------------------
(* C9 *)

\* the pointer variable c
PtrVar == 4

\* C9: a resource container holds for a pointer kind the pointer it was
\* given: the value of the pointer variable passed, or the pointer of the
\* container it was constructed from.  An assignment to the pointee made
\* through get<P>() changes the heap cell that pointer names and nothing
\* else: no variable, no slot of any container; so the pointer variable and
\* every container holding the same pointer read the value assigned.
C9_PointerKindsSharePointee ==
    [][/\ (last'.op = "raw" /\ last'.ok /\ HasSlot(res'[Len(res')], "IntP")) =>
              SlotValue(res'[Len(res')], "IntP") = x[PtrVar]
       /\ (last'.op = "from" /\ last'.ok /\ HasSlot(res'[Len(res')], "IntP")) =>
              \/ /\ HasSlot(res[last'.src], "IntP")
                 /\ SlotValue(res'[Len(res')], "IntP") = SlotValue(res[last'.src], "IntP")
              \/ /\ PtrVar \in ArgVarsOf(last'.args, "IntP")
                 /\ SlotValue(res'[Len(res')], "IntP") = x[PtrVar]
       /\ last'.op = "poke" =>
              LET a == SlotValue(res[last'.src], "IntP")
              IN /\ a \in Addr
                 /\ heap'[a] = last'.v
                 /\ \A b \in Addr \ {a} : heap'[b] = heap[b]
                 /\ x' = x /\ res' = res
                 /\ x[PtrVar] = a => Deref(heap', x'[PtrVar]) = last'.v
                 /\ \A j \in 1 .. Len(res) :
                       SlotValue(res[j], "IntP") = a =>
                           Deref(heap', resources_get(res'[j], "IntP")) = last'.v]_vars

\* two containers, the second constructed from the first, hold the pointer
\* of c and a by-value slot each; the pointee was assigned 1 through one of
\* them, and c and the other one see it
C9_Witness ==
    /\ last.op = "poke" /\ last.v = 1 /\ last.src = 2
    /\ Len(res) = 2
    /\ SlotValue(res[1], "IntP") = x[PtrVar]
    /\ SlotValue(res[2], "IntP") = x[PtrVar]
    /\ HasSlot(res[1], "Int") /\ HasSlot(res[2], "Int")
    /\ Deref(heap, x[PtrVar]) = 1
    /\ Deref(heap, resources_get(res[1], "IntP")) = 1
    /\ \A b \in Addr \ {x[PtrVar]} : heap[b] = 0

-----------------------------------------------------------------------------
(* C3 *)

\* the containers that alias variable var, each with the kind it does so by
AliasesOf(rs, var) ==
    {p \in (1 .. Len(rs)) \X Kinds :
        references_get_ok(rs[p[1]], p[2]) /\ references_alias(rs[p[1]], p[2]) = var}

\* every container reads, for every kind it holds, the current value of a
\* variable of that kind
AliasesVariables(rs, xx) ==
    \A j \in 1 .. Len(rs) : \A K \in Kinds :
        references_get_ok(rs[j], K) =>
            /\ references_alias(rs[j], K) \in VarIds
            /\ KindOfVar[references_alias(rs[j], K)] = K
            /\ references_get(rs[j], K, xx) = xx[references_alias(rs[j], K)]

\* C3: a reference container constructed from variables aliases, for each of
\* its kinds, the variable of that kind it was given; one constructed from
\* another container (copied, narrowed or extended) aliases for each kind the
\* variable the source aliases or a variable it was given, a copy aliasing
\* exactly what its source does.  get<K>() reads the current value of the
\* aliased variable, also after the caller assigned to it; an assignment
\* through get<K>() changes the aliased variable and no other, re-seats no
\* alias, and is read by every container aliasing that variable.
C3_ReferenceAliasing ==
    [][/\ AliasesVariables(refs', x')
       /\ (last'.op = "refraw" /\ last'.ok) =>
              \A K \in KindSet(last'.tgt) :
                  references_alias(refs'[Len(refs')], K) \in ArgVarsOf(last'.args, K)
       /\ (last'.op = "reffrom" /\ last'.ok) =>
              /\ \A K \in KindSet(last'.tgt) :
                    \/ /\ references_get_ok(refs[last'.src], K)
                       /\ references_alias(refs'[Len(refs')], K) =
                              references_alias(refs[last'.src], K)
                    \/ references_alias(refs'[Len(refs')], K) \in ArgVarsOf(last'.args, K)
              /\ last'.args = <<>> =>
                    \A K \in KindSet(last'.tgt) :
                        references_alias(refs'[Len(refs')], K) =
                            references_alias(refs[last'.src], K)
       /\ (last'.op = "refget" /\ last'.ok) =>
              last'.v = x[references_alias(refs[last'.src], last'.k)]
       /\ last'.op = "refwrite" =>
              LET var == references_alias(refs[last'.src], last'.k)
              IN /\ x'[var] = last'.v
                 /\ \A w \in VarIds \ {var} : x'[w] = x[w]
                 /\ refs' = refs
                 /\ \A p \in AliasesOf(refs, var) :
                       references_get(refs'[p[1]], p[2], x') = last'.v
       /\ last'.op = "var" =>
              \A p \in AliasesOf(refs, last'.args[1]) :
                  references_get(refs'[p[1]], p[2], x') = last'.v]_vars

\* two containers of different kind-sets, the second constructed from the
\* first, alias a1; a1 was assigned through the second to a value it did not
\* hold when they were constructed, and the first reads it
C3_Witness ==
    /\ last.op = "refwrite" /\ last.src = 2 /\ last.k = "Int" /\ last.v = 1
    /\ Len(refs) = 2
    /\ refs[1].list # refs[2].list
    /\ references_alias(refs[1], "Int") = 1
    /\ references_alias(refs[2], "Int") = 1
    /\ references_get(refs[1], "Int", x) = 1
    /\ x[1] = 1

-----------------------------------------------------------------------------
(* C8 *)

\* kind K is named by the exclusion pack of some instantiation
\* Container<List, Excl...> whose effective list is list
ExcludedFrom(list, K) ==
    \E List \in TypeLists(Kinds), Excl \in ExcludePacks(Kinds) :
        resources_list(List, Excl) = list /\ K \in KindSet(Excl)

\* C8: get<K>() on a resource container or a reference container is rejected,
\* and yields no value, for every kind K outside the container's effective
\* list: a kind its exclusion pack names, and a kind the container it was
\* constructed from holds but it does not.
C8_AbsentKindRejected ==
    /\ last.op = "get" =>
          LET c == res[last.src]
          IN /\ last.k \notin KindSet(c.list) => ~last.ok /\ last.v = NoValue
             /\ ExcludedFrom(c.list, last.k) => ~last.ok /\ last.v = NoValue
             /\ ~HasSlot(c, last.k) => ~last.ok /\ last.v = NoValue
    /\ last.op = "refget" =>
          LET c == refs[last.src]
          IN /\ last.k \notin KindSet(c.list) => ~last.ok /\ last.v = NoValue
             /\ ExcludedFrom(c.list, last.k) => ~last.ok /\ last.v = NoValue
             /\ ~HasSlot(c, WrapKind(last.k)) => ~last.ok /\ last.v = NoValue

\* a container narrowed from one of three kinds keeps two of them; get of the
\* kind it dropped, which its source holds, was rejected
C8_Witness ==
    /\ last.op = "get" /\ ~last.ok /\ last.src = 2
    /\ Len(res) = 2
    /\ Len(res[1].list) = 3 /\ Len(res[2].list) = 2
    /\ HasSlot(res[1], last.k) /\ ~HasSlot(res[2], last.k)
    /\ ExcludedFrom(res[2].list, last.k)
    /\ last.v = NoValue

-----------------------------------------------------------------------------
(* C11 *)

\* the elements of s that are not in the set out, in their order in s
Survivors(s, out) == SelectSeq(s, LAMBDA K : K \notin out)

\* the orderings of the pack e
PermutationsOf(e) ==
    {[i \in 1 .. Len(e) |-> e[p[i]]] :
        p \in {q \in [1 .. Len(e) -> 1 .. Len(e)] :
                  \A i, j \in 1 .. Len(e) : i # j => q[i] # q[j]}}

\* C11: for a duplicate-free kind sequence S and an exclusion pack E,
\* remove_types<S, E...>::type is the subsequence of S made of exactly the
\* kinds not in E, in their order in S; excluding kinds that are not in S
\* leaves S as it is, and every ordering of E gives the same result.
C11_EffectiveSetComputation ==
    last.op = "remove_types" =>
        /\ last.type = Survivors(last.tgt, KindSet(last.args))
        /\ KindSet(last.args) \cap KindSet(last.tgt) = {} => last.type = last.tgt
        /\ \A e \in PermutationsOf(last.args) : remove_types(last.tgt, e) = last.type

\* a list of three kinds and a pack of two different kinds, one in the list
\* and not at its head, the other not in it: the result keeps the other two
\* kinds in their order
C11_Witness ==
    /\ last.op = "remove_types"
    /\ Len(last.tgt) = 3 /\ Len(last.args) = 2
    /\ last.args[1] # last.args[2]
    /\ last.args[1] \notin KindSet(last.tgt)
    /\ last.args[2] = last.tgt[2]
    /\ last.type = <<last.tgt[1], last.tgt[3]>>

-----------------------------------------------------------------------------
(* C12 *)

\* C12: has_no_duplicates accepts a pack of kinds if and only if its
\* elements are pairwise distinct, wherever the two equal elements are; the
\* empty pack and the pack of one kind are accepted.
C12_DuplicateCheck ==
    last.op = "type_list" =>
        /\ last.ok = (\A i, j \in 1 .. Len(last.tgt) : i # j => last.tgt[i] # last.tgt[j])
        /\ Len(last.tgt) <= 1 => last.ok

\* a pack of four kinds whose first and last are the same one, no two
\* neighbours being equal, was rejected
C12_Witness ==
    /\ last.op = "type_list" /\ ~last.ok
    /\ Len(last.tgt) = 4
    /\ last.tgt[1] = last.tgt[4]
    /\ Cardinality(KindSet(last.tgt)) = 3

-----------------------------------------------------------------------------
(* C13 *)

\* the number of cells storage s holds for kind K
SlotCount(s, K) == Cardinality({i \in 1 .. Len(s) : s[i].k = K})

\* container c holds one cell for each kind of its list, as wrap gives it,
\* and none for any other kind
ExactlyItsSlots(c, wrap(_), universe) ==
    /\ Len(c.data) = Len(c.list)
    /\ has_no_duplicates(c.list)
    /\ \A K \in universe :
          SlotCount(c.data, wrap(K)) = IF K \in KindSet(c.list) THEN 1 ELSE 0
    /\ \A i \in 1 .. Len(c.data) : \E K \in KindSet(c.list) : c.data[i].k = wrap(K)

SameKind(K) == K

\* C13: after any sequence of constructions from variables and from other
\* containers (copy, permutation, extension, narrowing) and of writes through
\* get, every container holds exactly one slot for each kind of its effective
\* list and no slot for any other kind; a construction gives the new
\* container the effective list of its type; and no step changes the list or
\* the kinds of the slots of a container already constructed.
C13_SlotInvariant ==
    [][/\ \A j \in 1 .. Len(res') : ExactlyItsSlots(res'[j], SameKind, Kinds)
       /\ \A j \in 1 .. Len(refs') : ExactlyItsSlots(refs'[j], WrapKind, Kinds)
       /\ Len(res') >= Len(res) /\ Len(refs') >= Len(refs)
       /\ \A j \in 1 .. Len(res) :
             res'[j].list = res[j].list /\ ListOf(res'[j].data) = ListOf(res[j].data)
       /\ \A j \in 1 .. Len(refs) :
             refs'[j].list = refs[j].list /\ ListOf(refs'[j].data) = ListOf(refs[j].data)
       /\ Len(res') > Len(res) => res'[Len(res')].list = last'.tgt
       /\ Len(refs') > Len(refs) => refs'[Len(refs')].list = last'.tgt]_vars

\* a container of two kinds, a container of one kind narrowed from it with a
\* surplus argument, and a write through get of the narrowed one
C13_Witness ==
    /\ last.op = "write" /\ last.src = 2
    /\ Len(res) = 2
    /\ Len(res[1].list) = 2 /\ Len(res[1].data) = 2
    /\ Len(res[2].list) = 1 /\ Len(res[2].data) = 1
    /\ res[2].data[1].k = last.k
    /\ res[2].data[1].v = last.v
    /\ SlotValue(res[1], last.k) # last.v

====
